---- MODULE Spec2Model ----
(***************************************************************************)
(* Model of utils/parse_bvh.py: parse_bvh, save_as_npy and the two entry   *)
(* points convert_bvh_to_npy and main.                                     *)
(*                                                                         *)
(* A BVH file is a skeleton (joint names in depth-first declaration order, *)
(* each with its declared channels), a declared frame count and the frames *)
(* of sample data actually present.  The Bvh object of the third-party     *)
(* `bvh` package is modelled by the contract parse_bvh relies on: a lookup *)
(* of a channel the joint does not have raises KeyError (the one exception *)
(* the fallback loop of lines 53-58 catches), a lookup of a joint that is  *)
(* not in the skeleton raises LookupError and a frame index past the data  *)
(* raises IndexError.  Where two of these apply to one lookup the package  *)
(* decides which is raised, so the model allows either.                    *)
(*                                                                         *)
(* Samples are integers; np.float32 is modelled as round-to-nearest-even   *)
(* to a 24 bit significand.                                                *)
(***************************************************************************)
EXTENDS Integers, Sequences, FiniteSets, TLC

\* ---------------------------------------------------------------- bounds
MaxFrames == 2

\* ------------------------------------------------------------- constants
Two24 == 16777216

\* Names a skeleton can use; "Hips" is the name parse_bvh looks up.
JointNames == {"Hips", "Spine", "Head"}

PositionChannels == {"Xposition", "Yposition", "Zposition"}
RotationChannels == {"Zrotation", "Xrotation", "Yrotation"}
AllChannels == PositionChannels \cup RotationChannels

\* ------------------------------------------------- code of parse_bvh.py
\* line 42 and 46: the joint name the six root values are read from
RootName == "Hips"

\* line 42
RootPosChannels == <<"Xposition", "Yposition", "Zposition">>

\* line 46
RootRotChannels == <<"Zrotation", "Xrotation", "Yrotation">>

\* line 53 with the axes tried in alphabetical order
FallbackAxes_alphabetical == <<"Xrotation", "Yrotation", "Zrotation">>

\* line 53
FallbackAxes == <<"Zrotation", "Yrotation", "Xrotation">>

\* line 52
DefaultRot == 0

\* line 57 with no except clause: a missing channel leaves the loop
Absorbed_nothing(err) == FALSE

\* line 57: the exceptions the fallback loop absorbs
Absorbed(err) == err = "KeyError"

\* line 38 with range(mocap.nframes - 1)
LoopContinues_short(idx, n) == idx < n - 1

\* line 38 with range(mocap.nframes + 1)
LoopContinues_long(idx, n) == idx <= n

\* line 38: for i in range(mocap.nframes)
LoopContinues(idx, n) == idx < n

\* line 50 with joint_names instead of joint_names[1:]
NonRootJoints_all(names) == names

\* line 50: joint_names[1:]
NonRootJoints(names) == Tail(names)

\* line 61 with frames.insert(0, frame)
AppendRow_front(rows, row) == <<row>> \o rows

\* line 61: frames.append(frame)
AppendRow(rows, row) == Append(rows, row)

\* lines 96-99 with the save in a finally clause
CanSave_always(st) == TRUE

\* lines 96-99 and 134-137: save_as_npy is the statement after parse_bvh
CanSave(st) == st = "returned"

\* line 63: np.array(frames, dtype=np.float32), on a non-negative integer
RECURSIVE Ulp(_)
Ulp(v) == IF v < Two24 THEN 1 ELSE 2 * Ulp(v \div 2)

F32(v) ==
  LET u == Ulp(v)
      q == v \div u
      r == v % u
  IN  IF 2 * r < u THEN q * u
      ELSE IF 2 * r > u THEN (q + 1) * u
      ELSE IF q % 2 = 0 THEN q * u ELSE (q + 1) * u

ToFloat32(rows) == [r \in DOMAIN rows |-> [c \in DOMAIN rows[r] |-> F32(rows[r][c])]]

\* ------------------------------------------------------- the input file
\* Column of a channel in the fingerprint the samples carry.
ChanIdx(c) ==
  CASE c = "Xposition" -> 0
    [] c = "Yposition" -> 1
    [] c = "Zposition" -> 2
    [] c = "Zrotation" -> 3
    [] c = "Xrotation" -> 4
    [] c = "Yrotation" -> 5

\* Skeletons: joint names are unique within a file, root first.
Skeletons ==
  {s \in UNION {[1..n -> JointNames] : n \in 1..Cardinality(JointNames)} :
     \A a, b \in DOMAIN s : s[a] = s[b] => a = b}

\* Channel declarations of the parentless joint: all six, or one missing.
RootChoices == {AllChannels} \cup {AllChannels \ {c} : c \in AllChannels}

\* Channel declarations of a child joint: any rotations, or all six.
NonRootChoices == (SUBSET RotationChannels) \cup {AllChannels}

ChannelDecls(s) ==
  {d \in [DOMAIN s -> RootChoices \cup NonRootChoices] :
     \A p \in DOMAIN s : IF p = 1 THEN d[p] \in RootChoices
                                  ELSE d[p] \in NonRootChoices}

\* nframes is the declared frame count, data_frames the frames of samples
\* the file really holds (frames past the declared count are never read).
FrameCounts == {c \in (0..MaxFrames) \X (0..MaxFrames) : c[2] <= c[1]}

Files ==
  UNION {{[joints |-> s, channels |-> d, nframes |-> c[1], data_frames |-> c[2]] :
            d \in ChannelDecls(s), c \in FrameCounts}
         : s \in Skeletons}

NoFile == [joints |-> <<>>, channels |-> <<>>, nframes |-> 0, data_frames |-> 0]

\* Position of a joint name in the skeleton, 0 when it is not a joint.
PosOf(m, joint) ==
  IF \E p \in DOMAIN m.joints : m.joints[p] = joint
  THEN CHOOSE p \in DOMAIN m.joints : m.joints[p] = joint
  ELSE 0

\* The sample the file holds for (frame idx, joint at position p, channel c):
\* every sample of a file is different, never 0, and every other one is too
\* large for a 24 bit significand.
Sample(m, idx, p, c) ==
  LET code == (idx * Len(m.joints) + (p - 1)) * Cardinality(AllChannels) + ChanIdx(c)
  IN  4 * code + 1 + (IF code % 2 = 1 THEN Two24 ELSE 0)

\* --------------------------------------------- the bvh package's lookups
NoErr == "none"

\* mocap.frame_joint_channel(idx, joint, channel): the outcomes it can have.
frame_joint_channel(m, idx, joint, channel) ==
  LET p == PosOf(m, joint)
      errs == (IF p = 0 THEN {"LookupError"} ELSE {})
              \cup (IF p # 0 /\ channel \notin m.channels[p] THEN {"KeyError"} ELSE {})
              \cup (IF idx >= m.data_frames THEN {"IndexError"} ELSE {})
  IN  IF errs = {} THEN {[err |-> NoErr, val |-> Sample(m, idx, p, channel)]}
      ELSE {[err |-> e, val |-> 0] : e \in errs}

\* lines 42 and 46: [float(mocap.frame_joint_channel(i, "Hips", c)) for c in chs]
\* vals: the values read, n: the lookups made, err: the exception that ended it.
RECURSIVE LookupList(_, _, _, _)
LookupList(m, idx, joint, chs) ==
  IF chs = <<>> THEN {[err |-> NoErr, vals |-> <<>>, n |-> 0]}
  ELSE UNION {IF o.err # NoErr
              THEN {[err |-> o.err, vals |-> <<>>, n |-> 1]}
              ELSE {[err |-> r.err,
                     vals |-> IF r.err = NoErr THEN <<o.val>> \o r.vals ELSE <<>>,
                     n |-> r.n + 1] : r \in LookupList(m, idx, joint, Tail(chs))}
              : o \in frame_joint_channel(m, idx, joint, Head(chs))}

\* lines 52-58: rot_val = 0.0, then the first axis whose lookup does not raise
\* KeyError; any other exception leaves the loop and the function.
RECURSIVE ResolveJoint(_, _, _, _)
ResolveJoint(m, idx, joint, axes) ==
  IF axes = <<>> THEN {[err |-> NoErr, val |-> DefaultRot, n |-> 0]}
  ELSE UNION {IF o.err = NoErr THEN {[err |-> NoErr, val |-> o.val, n |-> 1]}
              ELSE IF Absorbed(o.err)
              THEN {[err |-> r.err, val |-> r.val, n |-> r.n + 1]
                      : r \in ResolveJoint(m, idx, joint, Tail(axes))}
              ELSE {[err |-> o.err, val |-> 0, n |-> 1]}
              : o \in frame_joint_channel(m, idx, joint, Head(axes))}

\* ----------------------------------------------------------------- state
VARIABLES
  entry,        \* the entry point called: convert_bvh_to_npy or main
  path_exists,  \* os.path.exists(bvh_path)
  mocap,        \* the file at bvh_path, as Bvh(f.read()) presents it
  pc,           \* position in the entry point / parse_bvh
  joint_names,  \* line 33
  i,            \* line 38: the frame index
  rest,         \* line 50: the joints of joint_names[1:] still to visit
  frame,        \* line 39: the row under construction
  frames,       \* line 37: the rows built so far
  result,       \* lines 63-69: the dataset parse_bvh returned
  status,       \* "running", "returned" or the exception that was raised
  failure,      \* where the exception was raised
  lookups,      \* calls of mocap.frame_joint_channel made so far
  saved         \* save_as_npy was called (the output file was written)

vars == <<entry, path_exists, mocap, pc, joint_names, i, rest, frame, frames,
          result, status, failure, lookups, saved>>

NoResult == [joint_names |-> <<>>, frames |-> <<>>]
NoFailure == [pc |-> "none", frame |-> -1]

Init ==
  /\ entry \in {"convert_bvh_to_npy", "main"}
  /\ path_exists \in BOOLEAN
  /\ mocap \in (IF path_exists THEN Files ELSE {NoFile})
  /\ pc = "check"
  /\ joint_names = <<>>
  /\ i = 0
  /\ rest = <<>>
  /\ frame = <<>>
  /\ frames = <<>>
  /\ result = NoResult
  /\ status = "running"
  /\ failure = NoFailure
  /\ lookups = 0
  /\ saved = FALSE

\* --------------------------------------------------------------- actions
\* An exception leaves parse_bvh: nothing is returned.
Raise(e) ==
  /\ status' = e
  /\ failure' = [pc |-> pc, frame |-> i]
  /\ pc' = "after_parse"

\* lines 93-94 and 131-132: the input path does not exist
PathMissing ==
  /\ pc = "check"
  /\ ~path_exists
  /\ status' = "FileNotFoundError"
  /\ failure' = [pc |-> pc, frame |-> -1]
  /\ pc' = "done"
  /\ UNCHANGED <<entry, path_exists, mocap, joint_names, i, rest, frame, frames,
                 result, lookups, saved>>

\* lines 93-96 and 131-134: the path exists, parse_bvh is called
PathFound ==
  /\ pc = "check"
  /\ path_exists
  /\ pc' = "open"
  /\ UNCHANGED <<entry, path_exists, mocap, joint_names, i, rest, frame, frames,
                 result, status, failure, lookups, saved>>

\* lines 29-37: read the file, list the joints, start with no rows
ReadJoints ==
  /\ pc = "open"
  /\ joint_names' = mocap.joints
  /\ frames' = <<>>
  /\ i' = 0
  /\ pc' = "loop"
  /\ UNCHANGED <<entry, path_exists, mocap, rest, frame, result, status, failure,
                 lookups, saved>>

\* lines 38-39: the next frame starts
NextFrame ==
  /\ pc = "loop"
  /\ LoopContinues(i, mocap.nframes)
  /\ frame' = <<>>
  /\ pc' = "root_pos"
  /\ UNCHANGED <<entry, path_exists, mocap, joint_names, i, rest, frames, result,
                 status, failure, lookups, saved>>

\* lines 42-43: the root position
RootPosition ==
  /\ pc = "root_pos"
  /\ \E o \in LookupList(mocap, i, RootName, RootPosChannels) :
       /\ lookups' = lookups + o.n
       /\ IF o.err = NoErr
          THEN /\ frame' = frame \o o.vals
               /\ pc' = "root_rot"
               /\ UNCHANGED <<status, failure>>
          ELSE /\ Raise(o.err)
               /\ UNCHANGED frame
  /\ UNCHANGED <<entry, path_exists, mocap, joint_names, i, rest, frames, result, saved>>

\* lines 46-47: the root rotation
RootRotation ==
  /\ pc = "root_rot"
  /\ \E o \in LookupList(mocap, i, RootName, RootRotChannels) :
       /\ lookups' = lookups + o.n
       /\ IF o.err = NoErr
          THEN /\ frame' = frame \o o.vals
               /\ rest' = NonRootJoints(joint_names)
               /\ pc' = "joints"
               /\ UNCHANGED <<status, failure>>
          ELSE /\ Raise(o.err)
               /\ UNCHANGED <<frame, rest>>
  /\ UNCHANGED <<entry, path_exists, mocap, joint_names, i, frames, result, saved>>

\* lines 50-59: one joint of joint_names[1:]
JointRotation ==
  /\ pc = "joints"
  /\ rest # <<>>
  /\ \E o \in ResolveJoint(mocap, i, Head(rest), FallbackAxes) :
       /\ lookups' = lookups + o.n
       /\ IF o.err = NoErr
          THEN /\ frame' = Append(frame, o.val)
               /\ rest' = Tail(rest)
               /\ UNCHANGED <<pc, status, failure>>
          ELSE /\ Raise(o.err)
               /\ UNCHANGED <<frame, rest>>
  /\ UNCHANGED <<entry, path_exists, mocap, joint_names, i, frames, result, saved>>

\* line 61: the row is complete
AppendFrame ==
  /\ pc = "joints"
  /\ rest = <<>>
  /\ frames' = AppendRow(frames, frame)
  /\ i' = i + 1
  /\ pc' = "loop"
  /\ UNCHANGED <<entry, path_exists, mocap, joint_names, rest, frame, result, status,
                 failure, lookups, saved>>

\* lines 63-69: convert to float32 and return the dataset
Return ==
  /\ pc = "loop"
  /\ ~LoopContinues(i, mocap.nframes)
  /\ result' = [joint_names |-> joint_names, frames |-> ToFloat32(frames)]
  /\ status' = "returned"
  /\ pc' = "after_parse"
  /\ UNCHANGED <<entry, path_exists, mocap, joint_names, i, rest, frame, frames,
                 failure, lookups, saved>>

\* lines 98-99 and 136-137: save_as_npy(data, output_path)
Save ==
  /\ pc = "after_parse"
  /\ CanSave(status)
  /\ saved' = TRUE
  /\ pc' = "done"
  /\ UNCHANGED <<entry, path_exists, mocap, joint_names, i, rest, frame, frames,
                 result, status, failure, lookups>>

\* the exception raised in parse_bvh leaves the entry point too
Propagate ==
  /\ pc = "after_parse"
  /\ ~CanSave(status)
  /\ pc' = "done"
  /\ UNCHANGED <<entry, path_exists, mocap, joint_names, i, rest, frame, frames,
                 result, status, failure, lookups, saved>>

Next ==
  \/ PathMissing
  \/ PathFound
  \/ ReadJoints
  \/ NextFrame
  \/ RootPosition
  \/ RootRotation
  \/ JointRotation
  \/ AppendFrame
  \/ Return
  \/ Save
  \/ Propagate

Spec == Init /\ [][Next]_vars

\* ------------------------------------------------------------ properties
Returned == status = "returned"
Finished == pc = "done"
Errors == {"FileNotFoundError", "KeyError", "LookupError", "IndexError"}

Rows == DOMAIN result.frames
\* positions of the non-root joints in the skeleton
Children == 2..Len(mocap.joints)
\* the rotation channels joint p declares
Rot(p) == mocap.channels[p] \cap RotationChannels
\* the sample of frame idx, joint p, channel c, as a float32 holds it
Stored(idx, p, c) == F32(Sample(mocap, idx, p, c))
\* column (1-based) of the joint at position p >= 2 in a row
Col(p) == 5 + p

\* C1: when parse_bvh returns, the dataset has as many rows as the declared
\* frame count and every row has len(joint_names) + 5 columns.
C1_RowCountAndWidth ==
  Returned =>
    /\ Len(result.frames) = mocap.nframes
    /\ \A r \in Rows : Len(result.frames[r]) = Len(result.joint_names) + 5

C1_Witness ==
  /\ Returned
  /\ mocap.nframes >= 2
  /\ Len(result.joint_names) = 3
  /\ Len(result.frames) >= 2

LookupsOfJoint(p) ==
  IF "Zrotation" \in Rot(p) THEN 1 ELSE IF "Yrotation" \in Rot(p) THEN 2 ELSE 3

RECURSIVE LookupsOfJoints(_)
LookupsOfJoints(ps) ==
  IF ps = {} THEN 0
  ELSE LET p == CHOOSE x \in ps : TRUE
       IN  LookupsOfJoint(p) + LookupsOfJoints(ps \ {p})

C4_RootColumns ==
  Returned =>
    \A r \in Rows :
      /\ result.frames[r][1] = Stored(r - 1, 1, "Xposition")
      /\ result.frames[r][2] = Stored(r - 1, 1, "Yposition")
      /\ result.frames[r][3] = Stored(r - 1, 1, "Zposition")
      /\ result.frames[r][4] = Stored(r - 1, 1, "Zrotation")
      /\ result.frames[r][5] = Stored(r - 1, 1, "Xrotation")
      /\ result.frames[r][6] = Stored(r - 1, 1, "Yrotation")

\* C5: for every valid file, whatever the root is called, the parse succeeds,
\* the six root values are read from joint_names[0] and the scalars from
\* joint_names[1:].
ValidFile ==
  /\ path_exists
  /\ mocap.channels[1] = AllChannels
  /\ mocap.data_frames >= mocap.nframes

C5_RootIsFirstJoint ==
  ValidFile =>
    /\ status \notin Errors
    /\ Returned =>
         \A r \in Rows :
           /\ \A c \in 1..6 :
                result.frames[r][c] \in {Stored(r - 1, 1, ch) : ch \in AllChannels}
           /\ \A p \in Children :
                result.frames[r][Col(p)] \in
                  {Stored(r - 1, p, ch) : ch \in mocap.channels[p]} \cup {DefaultRot}

\* C6: if one of the six root channels is absent for the root joint and there
\* is a frame to read, the parse fails and returns nothing.  (Stated without
\* the kind of the error: already this much of the claim is violated.)
C6_RootChannelMandatory ==
  ( /\ path_exists
    /\ mocap.channels[1] # AllChannels
    /\ mocap.nframes >= 1
    /\ Finished )
  => /\ status \in Errors
     /\ result = NoResult
     /\ ~saved

\* C7: the existence check precedes all parsing and save_as_npy is called only
\* after parse_bvh returned: an execution that ends in a failure has written
\* no output file.
C7_SaveOnlyAfterParse ==
  /\ ~path_exists => /\ pc \in {"check", "done"}
                     /\ joint_names = <<>>
                     /\ lookups = 0
  /\ saved => path_exists /\ Returned
  /\ Finished /\ status \in Errors => ~saved /\ result = NoResult

C7_Witness ==
  /\ Finished
  /\ status = "KeyError"
  /\ lookups > 0
  /\ ~saved

RootLookupsSucceed ==
  /\ PosOf(mocap, RootName) # 0
  /\ mocap.channels[PosOf(mocap, RootName)] = AllChannels

C9_ZeroFrames ==
  (path_exists /\ mocap.nframes = 0 /\ pc \in {"after_parse", "done"})
  => /\ Returned
     /\ lookups = 0
     /\ result.frames = <<>>
     /\ result.joint_names = mocap.joints

C9_Witness ==
  /\ Finished
  /\ Returned
  /\ mocap.nframes = 0
  /\ Len(result.joint_names) = 3
  /\ mocap.channels[1] # AllChannels
  /\ PosOf(mocap, RootName) # 1

\* C10: joint_names is the skeleton in declaration order, column 5 + k of row
\* i holds the value resolved for joint_names[k] in frame i, and row i is
\* frame i.
C10_OrderPreserved ==
  Returned =>
    /\ result.joint_names = mocap.joints
    /\ \A r \in Rows : \A p \in Children :
         result.frames[r][Col(p)] \in
           IF Rot(p) = {} THEN {DefaultRot}
           ELSE {Stored(r - 1, p, ch) : ch \in Rot(p)}

C10_Witness ==
  /\ Returned
  /\ Len(result.frames) >= 2
  /\ Len(result.joint_names) = 3
  /\ \A p \in Children : Rot(p) # {}
  /\ result.frames[2][Col(3)] \in {Stored(1, 3, ch) : ch \in Rot(3)}

====
